---- MODULE Spec2Model ----
(***************************************************************************)
(* Model of download_and_upload_floorplans.py: the batch loop of main, the *)
(* fetch wave (download_all_images / download_image_async), the upload     *)
(* wave (upload_all_files / upload_to_drive_async) and the cleanup of the  *)
(* staging directory temp_images.                                          *)
(*                                                                         *)
(* A work item is a pair (url, filename) of all_files; item j of the list  *)
(* is written j, and its staged file is named by the same j.               *)
(* The environment (HTTP server, Drive API, filesystem) decides the        *)
(* outcome of every fetch, upload and deletion; the decisions are recorded *)
(* in fetchOut and upOut so that a second run can be given the same ones.  *)
(***************************************************************************)
EXTENDS Integers, Sequences, FiniteSets, TLC

\* Largest number of (url, filename) pairs the catalog expands to.
MaxItems == 3

\* main: BATCH_SIZE = 100, scaled down so that a run has several batches.
BATCH_SIZE == 2

VARIABLES
    all_files,         \* main: list of work items
    pc,                \* position of main
    i,                 \* main: loop variable of the batch loop (0-based offset)
    batch,             \* main: all_files[i:i + BATCH_SIZE]
    dl_tasks,          \* download_all_images: state of each fetch task
    downloaded,        \* main: value returned by download_all_images
    temp_images,       \* set of files present in the staging directory
    dir_exists,        \* whether the staging directory exists
    up_tasks,          \* upload_all_files: state of each upload task
    uploaded,          \* main: value returned by upload_all_files
    successful_count,  \* main
    failed_downloads,  \* main
    failed_uploads,    \* main
    upload_time,       \* main: whether the local upload_time is bound
    n,                 \* main: position of the cleanup loop in batch (0: not entered)
    fetchOut,          \* environment: outcome of the fetch of each item
    upOut,             \* environment: outcomes of the successive uploads of each file
    cleanupFaults,     \* environment: whether os.remove / os.rmdir may raise
    fetches,           \* history: number of fetches of each item in this run
    uploads,           \* history: number of uploads of each file in this run
    rm_errors,         \* history: files of this batch whose os.remove raised
    deleted,           \* history: files of this batch deleted by cleanup
    batches,           \* history: number of batches processed in this run
    batch_log,         \* history: the batches processed in this run, in order
    ref,               \* summary of a previous run with the same outcomes
    df,                \* main: rows of the catalog (title, url, image2D_url)
    names,             \* main: filename of each pair of all_files
    row,               \* main: number of rows of df already expanded
    title,             \* main: a title of the catalog
    clean              \* main: the title after each application of the cleaning

vars == << all_files, pc, i, batch, dl_tasks, downloaded, temp_images,
           dir_exists, up_tasks, uploaded, successful_count, failed_downloads,
           failed_uploads, upload_time, n, fetchOut, upOut, cleanupFaults,
           fetches, uploads, rm_errors, deleted, batches, batch_log, ref,
           df, names, row, title, clean >>

Items == 1..MaxItems

Range(s) == { s[x] : x \in DOMAIN s }

Min(a, b) == IF a < b THEN a ELSE b

\* len(all_files)
total_images == Len(all_files)

\* all_files[i:i + BATCH_SIZE]
Slice(s, from) == SubSeq(s, from + 1, Min(from + BATCH_SIZE, Len(s)))

\* (total_images + BATCH_SIZE - 1)//BATCH_SIZE
NumBatches(t) == (t + BATCH_SIZE - 1) \div BATCH_SIZE

\* a gather that returns as soon as one task has returned
GatherDone_first(tasks, its) == \E j \in its : tasks[j] \in {"True", "False"}

\* asyncio.gather(*tasks): every fetch task has returned
GatherDone(tasks, its) == \A j \in its : tasks[j] \in {"True", "False"}

\* a count of the results of gather that does not test them
CountTrue_all(tasks, its) ==
    Cardinality({ j \in its : tasks[j] \in {"True", "False"} })

\* sum(1 for result in results if result)
CountTrue(tasks, its) == Cardinality({ j \in its : tasks[j] = "True" })

\* a loop that stops awaiting after the first upload task has returned
AwaitedAll_first(tasks) == \E f \in Items : tasks[f] \in {"id", "None"}

\* the loop "file_id = await task" has awaited every upload task
AwaitedAll(tasks) == \A f \in Items : tasks[f] \in {"none", "id", "None"}

\* successful_uploads: number of tasks whose file_id is truthy
CountIds(tasks) == Cardinality({ f \in Items : tasks[f] = "id" })

\* os.listdir(temp_dir)
ListDir(dir) == dir

\* for url, filename in batch: if not os.path.exists(filename): append
MissingOf(b, dir) == SelectSeq(b, LAMBDA j : j \notin dir)

\* for _, filename in batch: if os.path.exists(filename): append
PresentOf(b, dir) == SelectSeq(b, LAMBDA j : j \in dir)

\* the guard "if downloaded > 0" with the comparison made inclusive
AnyDownloaded_inclusive(d) == d >= 0

\* if downloaded > 0
AnyDownloaded(d) == d > 0

\* the cleanup loop ending one iteration early
CleanupExhausted_short(k, b) == k >= Len(b)

\* for _, filename in batch: the loop of line 176 has visited every item
CleanupExhausted(k, b) == k > Len(b)

NoRef == [valid |-> FALSE, successful_count |-> 0,
          failed_downloads |-> << >>, failed_uploads |-> << >>, pc |-> "loop"]

\* State of main at line 145, before the first batch.
Start ==
    /\ pc = "loop"
    /\ i = 0
    /\ batch = << >>
    /\ dl_tasks = [j \in Items |-> "none"]
    /\ downloaded = 0
    /\ temp_images = {}
    /\ dir_exists = TRUE
    /\ up_tasks = [j \in Items |-> "none"]
    /\ uploaded = 0
    /\ successful_count = 0
    /\ failed_downloads = << >>
    /\ failed_uploads = << >>
    /\ upload_time = "unbound"
    /\ n = 0
    /\ fetches = [j \in Items |-> 0]
    /\ uploads = [j \in Items |-> 0]
    /\ rm_errors = {}
    /\ deleted = {}
    /\ batches = 0
    /\ batch_log = << >>

Init ==
    /\ \E t \in 0..MaxItems : all_files = [j \in 1..t |-> j]
    /\ Start
    /\ fetchOut = [j \in Items |-> "none"]
    /\ upOut = [j \in Items |-> << >>]
    /\ cleanupFaults \in BOOLEAN
    /\ ref = NoRef
    /\ df = << >>
    /\ names = << >>
    /\ row = 0
    /\ title = << >>
    /\ clean = << >>

catalog == << df, names, row, title, clean >>
env == << fetchOut, upOut, cleanupFaults, ref, all_files, catalog >>
summary == << successful_count, failed_downloads, failed_uploads >>
hist == << fetches, uploads, rm_errors, deleted, batches, batch_log >>

\* main 145-153 and download_all_images 51-56: the next batch is sliced and
\* one fetch task per item is created.
StartBatch ==
    /\ pc = "loop"
    /\ i < total_images
    /\ batch' = Slice(all_files, i)
    /\ dl_tasks' = [j \in Items |-> IF j \in Range(Slice(all_files, i))
                                    THEN "created" ELSE "none"]
    /\ up_tasks' = [j \in Items |-> "none"]
    /\ n' = 0
    /\ rm_errors' = {}
    /\ deleted' = {}
    /\ batches' = batches + 1
    /\ batch_log' = Append(batch_log, Slice(all_files, i))
    /\ pc' = "download"
    /\ UNCHANGED << i, downloaded, temp_images, dir_exists, uploaded, summary,
                    upload_time, fetches, uploads, env >>

\* download_image_async 42-44: the request is sent and the status checked; on
\* a transport or status error the task returns False without a file, else
\* aiofiles.open(filename, 'wb') creates the staged file.
FetchOpen(j) ==
    /\ pc = "download"
    /\ dl_tasks[j] = "created"
    /\ \E o \in {"ok", "partial", "fail"} :
          /\ fetchOut[j] \in {"none", o}
          /\ fetchOut' = [fetchOut EXCEPT ![j] = o]
          /\ IF o = "fail"
             THEN /\ dl_tasks' = [dl_tasks EXCEPT ![j] = "False"]
                  /\ UNCHANGED temp_images
             ELSE /\ dl_tasks' = [dl_tasks EXCEPT ![j] = "opened"]
                  /\ temp_images' = temp_images \cup {j}
    /\ fetches' = [fetches EXCEPT ![j] = @ + 1]
    /\ UNCHANGED << all_files, pc, i, batch, downloaded, dir_exists, up_tasks,
                    uploaded, summary, upload_time, n, upOut, cleanupFaults,
                    uploads, rm_errors, deleted, batches, batch_log, ref,
                    catalog >>

\* download_image_async 45-49: the body is read and written; an error here
\* returns False and leaves the file that was opened.
FetchWrite(j) ==
    /\ pc = "download"
    /\ dl_tasks[j] = "opened"
    /\ dl_tasks' = [dl_tasks EXCEPT ![j] =
                        IF fetchOut[j] = "ok" THEN "True" ELSE "False"]
    /\ UNCHANGED << pc, i, batch, downloaded, temp_images, dir_exists,
                    up_tasks, uploaded, summary, upload_time, n, hist, env >>

\* download_all_images 57-58 and main 153: gather returns, the successes are
\* counted.
Gather ==
    /\ pc = "download"
    /\ GatherDone(dl_tasks, Range(batch))
    /\ downloaded' = CountTrue(dl_tasks, Range(batch))
    /\ pc' = "track_downloads"
    /\ UNCHANGED << i, batch, dl_tasks, temp_images, dir_exists, up_tasks,
                    uploaded, summary, upload_time, n, hist, env >>

\* main 157-161
TrackFailedDownloads ==
    /\ pc = "track_downloads"
    /\ failed_downloads' = failed_downloads \o MissingOf(batch, temp_images)
    /\ pc' = IF AnyDownloaded(downloaded) THEN "upload" ELSE "batch_end"
    /\ UNCHANGED << i, batch, dl_tasks, downloaded, temp_images, dir_exists,
                    up_tasks, uploaded, successful_count, failed_uploads,
                    upload_time, n, hist, env >>

\* upload_all_files 88-92: one upload task per file of the staging directory
CreateUploadTasks ==
    /\ pc = "upload"
    /\ up_tasks' = [f \in Items |-> IF f \in ListDir(temp_images)
                                    THEN "created" ELSE "none"]
    /\ pc' = "uploading"
    /\ UNCHANGED << i, batch, dl_tasks, downloaded, temp_images, dir_exists,
                    uploaded, summary, upload_time, n, hist, env >>

\* upload_to_drive_async 60-85: the file is read and sent; the task returns
\* the file id, or None on any error.
UploadTask(f) ==
    /\ pc = "uploading"
    /\ up_tasks[f] = "created"
    /\ \E r \in {"id", "None"} :
          /\ uploads[f] + 1 <= Len(upOut[f]) => r = upOut[f][uploads[f] + 1]
          /\ upOut' = IF uploads[f] + 1 <= Len(upOut[f]) THEN upOut
                      ELSE [upOut EXCEPT ![f] = Append(@, r)]
          /\ up_tasks' = [up_tasks EXCEPT ![f] = r]
    /\ uploads' = [uploads EXCEPT ![f] = @ + 1]
    /\ UNCHANGED << all_files, pc, i, batch, dl_tasks, downloaded, temp_images,
                    dir_exists, uploaded, summary, upload_time, n, fetchOut,
                    cleanupFaults, fetches, rm_errors, deleted, batches,
                    batch_log, ref, catalog >>

\* upload_all_files 94-102 and main 165-167
UploadJoin ==
    /\ pc = "uploading"
    /\ AwaitedAll(up_tasks)
    /\ uploaded' = CountIds(up_tasks)
    /\ successful_count' = successful_count + CountIds(up_tasks)
    /\ upload_time' = "bound"
    /\ pc' = "track_uploads"
    /\ UNCHANGED << i, batch, dl_tasks, downloaded, temp_images, dir_exists,
                    up_tasks, failed_downloads, failed_uploads, n, hist, env >>

\* main 170-172
TrackFailedUploads ==
    /\ pc = "track_uploads"
    /\ failed_uploads' = failed_uploads \o PresentOf(batch, temp_images)
    /\ n' = 1
    /\ pc' = "cleanup"
    /\ UNCHANGED << i, batch, dl_tasks, downloaded, temp_images, dir_exists,
                    up_tasks, uploaded, successful_count, failed_downloads,
                    upload_time, hist, env >>

\* main 176-181: one iteration of the cleanup loop; os.remove may raise, the
\* exception is printed and the loop goes on.
CleanupStep ==
    /\ pc = "cleanup"
    /\ ~CleanupExhausted(n, batch)
    /\ IF batch[n] \in temp_images
       THEN \E err \in BOOLEAN :
               /\ err => cleanupFaults
               /\ IF err
                  THEN /\ rm_errors' = rm_errors \cup {batch[n]}
                       /\ UNCHANGED << temp_images, deleted >>
                  ELSE /\ temp_images' = temp_images \ {batch[n]}
                       /\ deleted' = deleted \cup {batch[n]}
                       /\ UNCHANGED rm_errors
       ELSE UNCHANGED << temp_images, deleted, rm_errors >>
    /\ n' = n + 1
    /\ UNCHANGED << pc, i, batch, dl_tasks, downloaded, dir_exists, up_tasks,
                    uploaded, summary, upload_time, fetches, uploads, batches,
                    batch_log, env >>

\* main 176: the cleanup loop is exhausted
CleanupDone ==
    /\ pc = "cleanup"
    /\ CleanupExhausted(n, batch)
    /\ pc' = "batch_end"
    /\ UNCHANGED << i, batch, dl_tasks, downloaded, temp_images, dir_exists,
                    up_tasks, uploaded, summary, upload_time, n, hist, env >>

\* main 183-185 and the loop increment of 145: the f-string of line 184 reads
\* upload_time, which is unbound until a batch has run its upload phase.
BatchEnd ==
    /\ pc = "batch_end"
    /\ IF upload_time = "unbound"
       THEN /\ pc' = "raised"
            /\ UNCHANGED i
       ELSE /\ pc' = "loop"
            /\ i' = i + BATCH_SIZE
    /\ UNCHANGED << batch, dl_tasks, downloaded, temp_images, dir_exists,
                    up_tasks, uploaded, summary, upload_time, n, hist, env >>

\* main 145, 188-191: the loop is exhausted; os.rmdir raises when the
\* directory is not empty (or on a filesystem error), which is printed.
RemoveTempDir ==
    /\ pc = "loop"
    /\ i >= total_images
    /\ \E err \in BOOLEAN :
          /\ err => cleanupFaults
          /\ dir_exists' = (err \/ temp_images # {})
    /\ pc' = "summary"
    /\ UNCHANGED << i, batch, dl_tasks, downloaded, temp_images, up_tasks,
                    uploaded, summary, upload_time, n, hist, env >>

\* main 193-212
PrintSummary ==
    /\ pc = "summary"
    /\ pc' = "done"
    /\ UNCHANGED << i, batch, dl_tasks, downloaded, temp_images, dir_exists,
                    up_tasks, uploaded, summary, upload_time, n, hist, env >>

Next ==
    \/ StartBatch
    \/ \E j \in Items : FetchOpen(j)
    \/ \E j \in Items : FetchWrite(j)
    \/ Gather
    \/ TrackFailedDownloads
    \/ CreateUploadTasks
    \/ \E f \in Items : UploadTask(f)
    \/ UploadJoin
    \/ TrackFailedUploads
    \/ CleanupStep
    \/ CleanupDone
    \/ BatchEnd
    \/ RemoveTempDir
    \/ PrintSummary

Spec == Init /\ [][Next]_vars

\* A second run of main over the same catalog, with the fetch and upload
\* outcomes of the first run (kept in fetchOut, upOut) and with cleanup
\* failures allowed; the summary of the first run is kept in ref.
Restart ==
    /\ pc = "done"
    /\ ~ref.valid
    /\ ~cleanupFaults
    /\ ref' = [valid |-> TRUE, successful_count |-> successful_count,
               failed_downloads |-> failed_downloads,
               failed_uploads |-> failed_uploads, pc |-> pc]
    /\ cleanupFaults' = TRUE
    /\ pc' = "loop"
    /\ i' = 0
    /\ batch' = << >>
    /\ dl_tasks' = [j \in Items |-> "none"]
    /\ downloaded' = 0
    /\ temp_images' = {}
    /\ dir_exists' = TRUE
    /\ up_tasks' = [j \in Items |-> "none"]
    /\ uploaded' = 0
    /\ successful_count' = 0
    /\ failed_downloads' = << >>
    /\ failed_uploads' = << >>
    /\ upload_time' = "unbound"
    /\ n' = 0
    /\ fetches' = [j \in Items |-> 0]
    /\ uploads' = [j \in Items |-> 0]
    /\ rm_errors' = {}
    /\ deleted' = {}
    /\ batches' = 0
    /\ batch_log' = << >>
    /\ UNCHANGED << all_files, fetchOut, upOut, catalog >>

InitPair == Init /\ cleanupFaults = FALSE

NextPair == Next \/ Restart

\* A run without cleanup failures followed by a run with the same fetch and
\* upload outcomes in which os.remove and os.rmdir may raise.
SpecPair == InitPair /\ [][NextPair]_vars

(***************************************************************************)
(* The catalog reader of main (lines 126-137).  A string is a sequence of  *)
(* one-character strings; the marker 'details-' of a detail URL is written *)
(* as the single token "D".                                                *)
(***************************************************************************)

\* Longest title drawn when the cleaning of a title is applied on its own.
MaxTitleLen == 4

\* Bounds of the catalogs drawn: rows, title and id lengths, images per row.
MaxRows == 2
MaxRowTitleLen == 2
MaxIdLen == 2
MaxImages == 2

\* '/', '\\', ':', '?', '"', '<', '>', '|' of line 132
Invalid == {"/", "\\", ":", "?", "\"", "<", ">", "|"}

TitleChars == {"a", " ", "-", "_"} \cup Invalid

Strings(chars, lo, hi) == UNION { [1..k -> chars] : k \in lo..hi }

\* str.replace(old, new): the occurrences of old are replaced from left to
\* right, without overlap.
RECURSIVE Replace(_, _, _)
Replace(s, old, new) ==
    IF Len(s) < Len(old) THEN s
    ELSE IF SubSeq(s, 1, Len(old)) = old
         THEN new \o Replace(SubSeq(s, Len(old) + 1, Len(s)), old, new)
         ELSE << Head(s) >> \o Replace(Tail(s), old, new)

\* line 132 with ' ' written for '_'
ReplaceInvalid_space(s) ==
    [k \in DOMAIN s |-> IF s[k] \in Invalid THEN " " ELSE s[k]]

\* line 132: .replace('/', '_').replace('\\', '_') ... .replace('|', '_')
ReplaceInvalid(s) ==
    [k \in DOMAIN s |-> IF s[k] \in Invalid THEN "_" ELSE s[k]]

\* lines 130-132: title.replace(' - ', '_').replace(' ', '_'), then line 132
CleanTitle(t) ==
    ReplaceInvalid(Replace(Replace(t, << " ", "-", " " >>, << "_" >>),
                           << " " >>, << "_" >>))

\* s.split(tok)[-1]: what follows the last tok, or s when there is none
RECURSIVE AfterLast(_, _)
AfterLast(s, tok) ==
    IF \E k \in DOMAIN s : s[k] = tok
    THEN AfterLast(Tail(s), tok)
    ELSE s

\* s.split(tok)[0]: what precedes the first tok, or s when there is none
RECURSIVE BeforeFirst(_, _)
BeforeFirst(s, tok) ==
    IF s = << >> \/ Head(s) = tok THEN << >>
    ELSE << Head(s) >> \o BeforeFirst(Tail(s), tok)

\* line 133: row['url'].split('details-')[-1].split('.')[0]
ExternalId(url) == BeforeFirst(AfterLast(url, "D"), ".")

\* os.path.splitext(url)[1]: from the last '.' of the last path component,
\* unless only dots precede it there
SplitExt(url) ==
    LET base == AfterLast(url, "/")
        dots == { k \in DOMAIN base : base[k] = "." }
        last == CHOOSE k \in dots : \A m \in dots : m <= k
    IN  IF dots = {} THEN << >>
        ELSE IF \A m \in 1..(last - 1) : base[m] = "." THEN << >>
        ELSE SubSeq(base, last, Len(base))

\* str(i + 1) for the image indexes that occur
Digits == << "1", "2", "3", "4" >>

\* line 136: f"temp_images/{title}_{external_id}_{i+1}{ext}"
FileName(t, id, k, url) ==
    << "temp_images/" >> \o t \o << "_" >> \o id \o << "_", Digits[k] >>
        \o SplitExt(url)

\* lines 128-137 for one row: the filenames of its images, in order
RowNames(r) ==
    [k \in DOMAIN r.image2D_url |->
        FileName(CleanTitle(r.title), ExternalId(r.url), k, r.image2D_url[k])]

\* The image URL lists drawn: prefixes of a list mixing a URL with an
\* extension and one without.
ImageLists ==
    { SubSeq(<< << "h", "/", "x", ".", "j" >>, << "h", "/", "y" >>,
                << "h", "/", "z", ".", "p" >> >>, 1, k) : k \in 1..MaxImages }

\* The detail URLs drawn: ".../details-<id>.html"
DetailUrls ==
    { << "h", "/", "D" >> \o id \o << ".", "h" >> :
        id \in Strings({"1", "_"}, 1, MaxIdLen) }

Rows == [title : Strings({"a", " "}, 1, MaxRowTitleLen),
         url : DetailUrls,
         image2D_url : ImageLists]

\* main before line 126: the catalog has been read, nothing is expanded.
InitCatalog ==
    /\ df \in UNION { [1..k -> Rows] : k \in 0..MaxRows }
    /\ names = << >>
    /\ row = 0
    /\ all_files = << >>
    /\ pc = "catalog"
    /\ i = 0
    /\ batch = << >>
    /\ dl_tasks = [j \in Items |-> "none"]
    /\ downloaded = 0
    /\ temp_images = {}
    /\ dir_exists = TRUE
    /\ up_tasks = [j \in Items |-> "none"]
    /\ uploaded = 0
    /\ successful_count = 0
    /\ failed_downloads = << >>
    /\ failed_uploads = << >>
    /\ upload_time = "unbound"
    /\ n = 0
    /\ fetches = [j \in Items |-> 0]
    /\ uploads = [j \in Items |-> 0]
    /\ rm_errors = {}
    /\ deleted = {}
    /\ batches = 0
    /\ batch_log = << >>
    /\ fetchOut = [j \in Items |-> "none"]
    /\ upOut = [j \in Items |-> << >>]
    /\ cleanupFaults = FALSE
    /\ ref = NoRef
    /\ title = << >>
    /\ clean = << >>

\* main 127-137: one iteration of the loop over the rows of df
ExpandRow ==
    /\ pc = "catalog"
    /\ row < Len(df)
    /\ row' = row + 1
    /\ names' = names \o RowNames(df[row + 1])
    /\ all_files' = [j \in 1..(Len(names) + Len(df[row + 1].image2D_url)) |-> j]
    /\ UNCHANGED << pc, i, batch, dl_tasks, downloaded, temp_images,
                    dir_exists, up_tasks, uploaded, summary, upload_time, n,
                    hist, fetchOut, upOut, cleanupFaults, ref, df, title,
                    clean >>

NextCatalog == ExpandRow

\* The expansion of a catalog into (url, filename) pairs.
SpecCatalog == InitCatalog /\ [][NextCatalog]_vars

\* A title is drawn, nothing is cleaned yet.
InitClean ==
    /\ title \in Strings(TitleChars, 1, MaxTitleLen)
    /\ clean = << >>
    /\ df = << >>
    /\ names = << >>
    /\ row = 0
    /\ all_files = << >>
    /\ pc = "catalog"
    /\ i = 0
    /\ batch = << >>
    /\ dl_tasks = [j \in Items |-> "none"]
    /\ downloaded = 0
    /\ temp_images = {}
    /\ dir_exists = TRUE
    /\ up_tasks = [j \in Items |-> "none"]
    /\ uploaded = 0
    /\ successful_count = 0
    /\ failed_downloads = << >>
    /\ failed_uploads = << >>
    /\ upload_time = "unbound"
    /\ n = 0
    /\ fetches = [j \in Items |-> 0]
    /\ uploads = [j \in Items |-> 0]
    /\ rm_errors = {}
    /\ deleted = {}
    /\ batches = 0
    /\ batch_log = << >>
    /\ fetchOut = [j \in Items |-> "none"]
    /\ upOut = [j \in Items |-> << >>]
    /\ cleanupFaults = FALSE
    /\ ref = NoRef

\* main 130-132 applied to the title, then to its own result
CleanAgain ==
    /\ pc = "catalog"
    /\ Len(clean) < 2
    /\ clean' = Append(clean, CleanTitle(IF clean = << >> THEN title
                                         ELSE clean[Len(clean)]))
    /\ UNCHANGED << all_files, pc, i, batch, dl_tasks, downloaded,
                    temp_images, dir_exists, up_tasks, uploaded, summary,
                    upload_time, n, hist, fetchOut, upOut, cleanupFaults, ref,
                    df, names, row, title >>

NextClean == CleanAgain

\* The cleaning of a title, applied twice.
SpecClean == InitClean /\ [][NextClean]_vars

----------------------------------------------------------------------------
\* C1: when a batch has completed, the staged file of every item of the
\* batch whose upload returned None is still in the staging directory.
C1_FailedUploadFileRetained ==
    pc = "batch_end" =>
        \A j \in Range(batch) : up_tasks[j] = "None" => j \in temp_images

\* C2: after a batch's upload phase, the items of the batch recorded in
\* failed_uploads are exactly those whose upload failed: every failed one is
\* recorded and no item whose upload succeeded is recorded.
C2_FailedUploadsExact ==
    pc \in {"cleanup", "batch_end"} /\ n > 0 =>
        \A j \in Range(batch) :
            (j \in Range(failed_uploads)) <=> (up_tasks[j] = "None")

\* C3: whatever the fetch and upload outcomes, no exception escapes main and
\* a finished run has processed every one of the ceil(T/B) batches.
C3_RunProcessesAllBatches ==
    /\ pc # "raised"
    /\ pc = "done" => batches = NumBatches(total_images)

\* C4 (as stated): when a batch has completed, no staged file of an item of
\* the batch that was uploaded successfully is left in the staging directory.
C4_NoUploadedFileRemains ==
    pc = "batch_end" =>
        \A j \in Range(batch) : up_tasks[j] = "id" => j \notin temp_images

\* C4 (amended): when a batch has completed, a staged file of an item of the
\* batch that was uploaded successfully is left in the staging directory
\* only if os.remove raised for it in the cleanup of the batch.
C4_UploadedFileRemovedUnlessRemoveRaised ==
    pc = "batch_end" =>
        \A j \in Range(batch) :
            up_tasks[j] = "id" /\ j \in temp_images => j \in rm_errors

\* A batch of two uploaded files has completed; one was deleted, the other
\* was kept by a failing os.remove.
C4_Witness ==
    /\ pc = "batch_end"
    /\ \E j \in Range(batch) : up_tasks[j] = "id" /\ j \in deleted
    /\ \E j \in Range(batch) : up_tasks[j] = "id" /\ j \in rm_errors

\* C5: after the download wave of a batch, an item of the batch is recorded
\* in failed_downloads (once) if and only if its fetch returned False.
C5_FailedDownloadsExact ==
    pc \in {"upload", "uploading", "track_uploads", "cleanup", "batch_end"} =>
        \A j \in Range(batch) :
            /\ (j \in Range(failed_downloads)) <=> (dl_tasks[j] = "False")
            /\ Cardinality({ x \in DOMAIN failed_downloads :
                                 failed_downloads[x] = j }) <= 1

\* C6: over a run every item is fetched at most once and its staged file is
\* uploaded at most once.
C6_SingleAttempt ==
    \A j \in Items : fetches[j] <= 1 /\ uploads[j] <= 1

\* C7: a run in which cleanup steps fail ends with the same successful_count,
\* failed_downloads and failed_uploads as the run with the same fetch and
\* upload outcomes in which no cleanup step fails.
C7_CleanupFailureKeepsSummary ==
    ref.valid /\ pc = "done" =>
        /\ successful_count = ref.successful_count
        /\ failed_downloads = ref.failed_downloads
        /\ failed_uploads = ref.failed_uploads

\* C8: the number of uploads counted for a batch is at most the number of
\* fetches of the batch that succeeded.
C8_UploadedAtMostFetched ==
    pc \in {"track_uploads", "cleanup"} =>
        uploaded <= Cardinality({ j \in Range(batch) : dl_tasks[j] = "True" })

\* C9: within a batch, no upload task exists while a fetch of the batch has
\* not returned, and no staged file has been deleted by cleanup while an
\* upload task has not returned.
C9_WavesStrictlyOrdered ==
    /\ (\E f \in Items : up_tasks[f] # "none") =>
           \A j \in Range(batch) : dl_tasks[j] \in {"True", "False"}
    /\ (deleted # {} \/ rm_errors # {} \/ n > 0) =>
           /\ \A f \in Items : up_tasks[f] # "created"
           /\ \A j \in Range(batch) : dl_tasks[j] \in {"True", "False"}

\* A batch of two items, one fetched and one whose fetch failed after its
\* file was opened, has uploaded both files and deleted the first.
C9_Witness ==
    /\ Len(batch) = 2
    /\ dl_tasks[batch[1]] = "True"
    /\ dl_tasks[batch[2]] = "False"
    /\ batch[2] \in temp_images
    /\ up_tasks[batch[2]] = "None"
    /\ deleted = {batch[1]}

\* C10: the upload and cleanup phases of a batch are entered exactly when a
\* fetch of the batch succeeded: without a successful fetch no upload task
\* is created and no file is deleted; with one, the batch ends after the
\* upload wave has returned and the cleanup loop has visited every item.
C10_UploadAndCleanupIffFetched ==
    LET fetched == \E j \in Range(batch) : dl_tasks[j] = "True"
        uploading == \E f \in Items : up_tasks[f] # "none"
    IN  /\ (uploading \/ n > 0 \/ deleted # {} \/ rm_errors # {}) => fetched
        /\ pc = "batch_end" =>
              (fetched <=> ( /\ uploading
                             /\ \A f \in Items : up_tasks[f] # "created"
                             /\ n = Len(batch) + 1 ))

\* The second batch ends without a successful fetch, with a partly written
\* file in the staging directory, after a first batch that uploaded.
C10_Witness ==
    /\ pc = "batch_end"
    /\ batches = 2
    /\ successful_count > 0
    /\ \A j \in Range(batch) : dl_tasks[j] = "False"
    /\ \E j \in Range(batch) : j \in temp_images
    /\ \A f \in Items : up_tasks[f] = "none"

\* The concatenation of a sequence of sequences.
RECURSIVE Flatten(_)
Flatten(ss) == IF ss = << >> THEN << >> ELSE Head(ss) \o Flatten(Tail(ss))

\* C11: main processes exactly ceil(T/B) batches; the batches are the
\* contiguous slices of all_files in order, every item is in exactly one of
\* them and their sizes sum to T.
C11_BatchesPartitionItems ==
    /\ \A k \in DOMAIN batch_log :
           batch_log[k] = SubSeq(all_files, (k - 1) * BATCH_SIZE + 1,
                                 Min(k * BATCH_SIZE, total_images))
    /\ pc \in {"done", "raised"} =>
           /\ Len(batch_log) * BATCH_SIZE >= total_images
           /\ (Len(batch_log) - 1) * BATCH_SIZE < total_images \/ total_images = 0
           /\ Flatten(batch_log) = all_files
           /\ Len(Flatten(batch_log)) = total_images

\* C12: when the fetch wave of a batch returns, every fetch of the batch has
\* returned True or False, the two kinds add up to the size of the batch,
\* each item's result is the outcome of its own fetch whatever its siblings
\* did, and the returned count is the number of fetches that succeeded.
C12_FetchWaveJoinsAndCounts ==
    pc = "track_downloads" =>
        /\ \A j \in Range(batch) :
               /\ dl_tasks[j] \in {"True", "False"}
               /\ dl_tasks[j] = "True" <=> fetchOut[j] = "ok"
        /\ Cardinality({ j \in Range(batch) : dl_tasks[j] = "True" })
             + Cardinality({ j \in Range(batch) : dl_tasks[j] = "False" })
             = Len(batch)
        /\ downloaded = Cardinality({ j \in Range(batch) : fetchOut[j] = "ok" })

\* The wave of a batch of two has returned with the first fetch failed and
\* the second succeeded.
C12_Witness ==
    /\ pc = "track_downloads"
    /\ Len(batch) = 2
    /\ dl_tasks[batch[1]] = "False"
    /\ dl_tasks[batch[2]] = "True"
    /\ downloaded = 1

\* C13: a fetch is in progress only for an item of the batch started last,
\* and a batch is started only when no fetch task and no upload task of the
\* previous batch is unfinished and its cleanup loop, if entered, has
\* visited every item.
C13_BatchesStrictlySequential ==
    /\ [](\A j \in Items :
             /\ dl_tasks[j] \in {"created", "opened"} =>
                    batch_log # << >> /\ j \in Range(batch_log[Len(batch_log)])
             /\ fetches[j] > 0 \/ uploads[j] > 0 =>
                    \E k \in DOMAIN batch_log : j \in Range(batch_log[k]))
    /\ [][batches' = batches + 1 =>
             /\ \A j \in Items : dl_tasks[j] \in {"none", "True", "False"}
             /\ \A f \in Items : up_tasks[f] \in {"none", "id", "None"}
             /\ n = 0 \/ n = Len(batch) + 1]_vars

\* The second batch is fetching after the first batch has fetched, uploaded
\* and deleted its files.
C13_Witness ==
    /\ batches = 2
    /\ \E j \in Range(batch) : dl_tasks[j] = "opened"
    /\ \A j \in Range(batch_log[1]) :
           fetches[j] = 1 /\ uploads[j] = 1 /\ j \notin temp_images

\* C14: once the catalog is expanded, no two (row, image index) pairs have
\* the same destination filename.
C14_FilenamesDistinct ==
    row = Len(df) =>
        \A a, b \in DOMAIN names : a # b => names[a] # names[b]

\* C15: cleaning an already cleaned title gives the same string.
C15_CleanTitleIdempotent ==
    Len(clean) = 2 => clean[2] = clean[1]

\* A title with ' - ' and an invalid character has been cleaned twice, and
\* the first cleaning changed it.
C15_Witness ==
    /\ Len(clean) = 2
    /\ \E k \in 1..(Len(title) - 2) :
           SubSeq(title, k, k + 2) = << " ", "-", " " >>
    /\ \E k \in DOMAIN title : title[k] \in Invalid
    /\ clean[1] # title

\* C16: every file given to an upload task during a batch is the staged
\* file of an item of that batch whose fetch succeeded; files left in the
\* staging directory by earlier batches are not uploaded.
C16_UploadsOnlyFilesOfBatch ==
    \A f \in Items :
        up_tasks[f] # "none" => f \in Range(batch) /\ dl_tasks[f] = "True"

\* C17: at the end of a completed run every item is counted exactly once:
\* successful_count + len(failed_downloads) + len(failed_uploads) equals
\* total_images, and successful_count is at most total_images.
C17_SummaryPartitionsItems ==
    pc = "done" =>
        /\ successful_count + Len(failed_downloads) + Len(failed_uploads)
             = total_images
        /\ successful_count <= total_images

====
